---- MODULE Spec2Model ----
\* Model of scripts/update_repo_json.py: the manifest updater main() run as one
\* process (restartable, killable) and as two concurrent processes that share
\* the on-disk repo.json.
EXTENDS Integers, Sequences, FiniteSets, TLC

\* disk: repo.json as the file system holds it; pre[p]: the file when run p
\* began; wlog: the order of the loads, opens and closes of the runs so far;
\* the other variables are the locals of main() in each process
VARIABLES disk, pc, args, env, data, loaded, newobj, changed, woff, wbuf,
          exit, out, pre, runs, wlog

vars == <<disk, pc, args, env, data, loaded, newobj, changed, woff, wbuf,
          exit, out, pre, runs, wlog>>

\* ---------------------------------------------------------------- bounds
MaxLen == 2
MaxRuns == 2

\* ------------------------------------------------------- Python values
\* Python None (also the result of dict.get on a missing key) for strings
None == "<None>"
\* Python None for the integer size
NoSize == -1
\* truthiness of a str-or-None value: None and '' are falsy
Truthy(s) == s # None /\ s # ""

\* dict.get(key) on an object whose keys may be missing
Get(d, key) == IF key \in DOMAIN d THEN d[key] ELSE None

\* a or b on str-or-None values
Or(a, b) == IF Truthy(a) THEN a ELSE b

\* an optional JSON array: key absent, JSON null, or a list
NoKey == [kind |-> "absent", items |-> <<>>]
Null == [kind |-> "null", items |-> <<>>]
List(s) == [kind |-> "list", items |-> s]

\* dict.get(key) is None: the key is absent or holds null
IsNone(l) == l.kind # "list"

\* truthiness of dict.get(key) for an array: None and [] are falsy
TruthyList(l) == l.kind = "list" /\ Len(l.items) > 0

\* ---------------------------------------------------------- the inputs
Tags == {"1.0", "1.1"}
ReleaseFlags == {None, "", "1.1"}
ReleaseEnvs == {None, "1.0"}
CatboxFlags == {None, "https://x/y"}
CatboxEnvs == {None, "https://e/z"}
NotesFlags == {None, "Notes"}
NotesEnvs == {None}
Sizes == {NoSize, 0}
Dates == {"2024-01-01T00:00:00+00:00", "2026-11-05T00:00:00+00:00"}

ArgSet == [release_tag : ReleaseFlags, catbox_url : CatboxFlags,
           release_notes : NotesFlags, size : Sizes]
EnvSet == [RELEASE_TAG : ReleaseEnvs, CATBOX_URL : CatboxEnvs,
           RELEASE_NOTES : NotesEnvs]

\* ------------------------------------------------- manifests on disk
OldEntry(v, m) ==
    LET e == [downloadURL |-> "old", size |-> 10, version |-> v,
              buildVersion |-> "1", date |-> "2024-01-01T00:00:00+00:00",
              localizedDescription |-> <<"old desc">>]
    IN IF m = None THEN e ELSE e @@ [minOSVersion |-> m]

MinOSValues == {None, "", "14.0"}
\* the first entry is the one main() reads: it takes every shape
OldEntries == {OldEntry(v, m) : v \in Tags, m \in MinOSValues}
\* the entries behind it are only carried along
TailEntries == {OldEntry("1.0", None), OldEntry("1.1", "14.0")}

RECURSIVE SeqsUpTo(_, _)
SeqsUpTo(S, n) ==
    IF n = 0 THEN {<<>>}
    ELSE LET shorter == SeqsUpTo(S, n - 1)
         IN shorter \cup {Append(s, e) : s \in {t \in shorter : Len(t) = n - 1}, e \in S}

OldVersions ==
    {NoKey, Null, List(<<>>)}
    \cup {List(<<e>> \o t) : e \in OldEntries, t \in SeqsUpTo(TailEntries, MaxLen - 1)}

OldApp(vs) == [version |-> "1.0", versionDate |-> "2024-01-01T00:00:00+00:00",
               downloadURL |-> "old", size |-> 10, versions |-> vs]

OldDocs == {[apps |-> NoKey], [apps |-> List(<<>>)]}
           \cup {[apps |-> List(<<OldApp(vs)>>)] : vs \in OldVersions}

\* ------------------------------------------------ json.dump / json.load
\* The document is written as a head block (everything but the entries of
\* apps[0].versions), one block per version entry, and a closing block.
HeadBlock(doc) ==
    [t |-> "head", apps |-> doc.apps.kind,
     fields |-> IF doc.apps.kind = "list" /\ Len(doc.apps.items) > 0
                THEN <<[version |-> doc.apps.items[1].version,
                        versionDate |-> doc.apps.items[1].versionDate,
                        downloadURL |-> doc.apps.items[1].downloadURL,
                        size |-> doc.apps.items[1].size,
                        versions |-> doc.apps.items[1].versions.kind]>>
                ELSE <<>>]
Foot == [t |-> "foot"]
Hole == [t |-> "hole"]
EntryBlock(e) == [t |-> "entry", entry |-> e]

Entries(doc) ==
    IF doc.apps.kind = "list" /\ Len(doc.apps.items) > 0
    THEN doc.apps.items[1].versions.items
    ELSE <<>>

Serialize(doc) ==
    <<HeadBlock(doc)>> \o [i \in 1..Len(Entries(doc)) |-> EntryBlock(Entries(doc)[i])]
                  \o <<Foot>>

\* json.load accepts exactly the block sequences json.dump can produce
WellFormed(blocks) ==
    /\ Len(blocks) >= 2
    /\ blocks[1].t = "head"
    /\ blocks[Len(blocks)].t = "foot"
    /\ \A i \in 2..(Len(blocks) - 1) : blocks[i].t = "entry"
    /\ Len(blocks) > 2 => /\ Len(blocks[1].fields) > 0
                          /\ blocks[1].fields[1].versions = "list"

Parse(blocks) ==
    LET h == blocks[1]
        es == [i \in 1..(Len(blocks) - 2) |-> blocks[i + 1].entry]
    IN [apps |-> [kind |-> h.apps,
                  items |-> IF Len(h.fields) = 0 THEN <<>>
                            ELSE <<[version |-> h.fields[1].version,
                                    versionDate |-> h.fields[1].versionDate,
                                    downloadURL |-> h.fields[1].downloadURL,
                                    size |-> h.fields[1].size,
                                    versions |-> [kind |-> h.fields[1].versions,
                                                  items |-> es]]>>]]

\* the file as the operating system keeps it
NoFile == [exists |-> FALSE, blocks |-> <<>>]
File(blocks) == [exists |-> TRUE, blocks |-> blocks]

\* write(2) of one block at 1-based position off; a gap reads back as a hole
WriteAt(blocks, off, b) ==
    [i \in 1..(IF off > Len(blocks) THEN off ELSE Len(blocks)) |->
        IF i = off THEN b
        ELSE IF i <= Len(blocks) THEN blocks[i]
        ELSE Hole]

\* ------------------------------------------------------------ main()
Procs == {1, 2}

\* lines 33-36: prefer CLI args, fall back to environment variables
Release(a, e) == Or(a.release_tag, e.RELEASE_TAG)
Catbox(a, e) == Or(a.catbox_url, e.CATBOX_URL)
ReleaseNotes(a, e) == Or(a.release_notes, e.RELEASE_NOTES)
ProvidedSize(a) == IF a.size # NoSize THEN a.size ELSE NoSize

\* line 51: apps = data.get('apps') or []
Apps(doc) == IF TruthyList(doc.apps) THEN doc.apps.items ELSE <<>>

\* lines 46-67: the checks between loading and computing, in program order
Precheck(release, doc, provided_size) ==
    IF ~Truthy(release) THEN "no release"
    ELSE IF Len(Apps(doc)) = 0 THEN "no apps"
    ELSE IF provided_size = NoSize THEN "NameError"
    ELSE "ok"

\* what each way of leaving main() prints last
Message(outcome) ==
    CASE outcome = "not found" -> "repo.json not found at repo.json"
      [] outcome = "JSONDecodeError" -> "Traceback: JSONDecodeError"
      [] outcome = "no release" -> "RELEASE_TAG not provided; nothing to do"
      [] outcome = "no apps" -> "No apps array found in repo.json"
      [] outcome = "NameError" -> "Traceback: NameError: name 'printf' is not defined"
      [] outcome = "updated" -> "repo.json updated"
      [] outcome = "unchanged" -> "No changes required for repo.json"

\* faulty variant: the missing-size path returns success
ExitCodeSizeOk(outcome) ==
    IF outcome \in {"no release", "NameError", "updated", "unchanged"} THEN 0 ELSE 1

\* faulty variant: a missing release tag is reported as a failure
ExitCodeReleaseFails(outcome) ==
    IF outcome \in {"updated", "unchanged"} THEN 0 ELSE 1

\* the process exit status: main()'s return value, 1 for an uncaught exception
ExitCode(outcome) ==
    CASE outcome = "not found" -> 1
      [] outcome = "JSONDecodeError" -> 1
      [] outcome = "no release" -> 0
      [] outcome = "no apps" -> 1
      [] outcome = "NameError" -> 1
      [] outcome = "updated" -> 0
      [] outcome = "unchanged" -> 0

\* line 59
NewDownload(catbox, a) ==
    IF Truthy(catbox) THEN catbox ELSE Or(a.downloadURL, "")

\* lines 73-78: the header sentence with the release, then the notes if any
NewLocalized(release, release_notes) ==
    <<"This version includes the ApolloICA tweak version:", release,
      "patched with Liquid Glass support.">>
    \o (IF Truthy(release_notes) THEN <<release_notes>> ELSE <<>>)

\* lines 81-83: the previous first version, as a sequence of zero or one entry
Prev(a) == IF TruthyList(a.versions) THEN <<a.versions.items[1]>> ELSE <<>>

\* lines 85-96
NewVersionObj(prev, new_download, new_size, release, date_iso, new_localized) ==
    LET obj == [downloadURL |-> new_download, size |-> new_size,
                version |-> release, buildVersion |-> "1", date |-> date_iso,
                localizedDescription |-> new_localized]
    IN IF Len(prev) > 0 /\ Truthy(Get(prev[1], "minOSVersion"))
       THEN obj @@ [minOSVersion |-> Get(prev[1], "minOSVersion")]
       ELSE obj

\* faulty variant: the top-level version is left as it was
UpdateTopKeepVersion(a, release, date_iso, new_download, new_size) ==
    [a EXCEPT !.versionDate = date_iso, !.downloadURL = new_download,
              !.size = new_size]

\* lines 100-115: the top-level fields after the four conditional assignments
UpdateTop(a, release, date_iso, new_download, new_size) ==
    [a EXCEPT !.version = IF @ # release THEN release ELSE @,
              !.versionDate = IF @ # date_iso THEN date_iso ELSE @,
              !.downloadURL = IF @ # new_download THEN new_download ELSE @,
              !.size = IF @ # new_size THEN new_size ELSE @]

ChangedTop(a, release, date_iso, new_download, new_size) ==
    \/ a.version # release
    \/ a.versionDate # date_iso
    \/ a.downloadURL # new_download
    \/ a.size # new_size

\* line 123
TopVersion(versions) ==
    IF Len(versions.items) > 0 THEN Get(versions.items[1], "version") ELSE None

\* faulty variant: the new entry is appended instead of inserted at the front
UpdateVersionsAppend(versions, new_version_obj, release) ==
    IF IsNone(versions) THEN List(<<new_version_obj>>)
    ELSE IF TopVersion(versions) # release
         THEN List(Append(versions.items, new_version_obj))
         ELSE List([versions.items EXCEPT ![1] = new_version_obj])

\* faulty variant: the new entry is always inserted, never replacing the first
UpdateVersionsAlwaysInsert(versions, new_version_obj, release) ==
    IF IsNone(versions) THEN List(<<new_version_obj>>)
    ELSE List(<<new_version_obj>> \o versions.items)

\* faulty variant: a missing versions array is created empty
UpdateVersionsCreateEmpty(versions, new_version_obj, release) ==
    IF IsNone(versions) THEN List(<<>>)
    ELSE IF TopVersion(versions) # release
         THEN List(<<new_version_obj>> \o versions.items)
         ELSE List([versions.items EXCEPT ![1] = new_version_obj])

\* lines 118-130: the versions array after the update
UpdateVersions(versions, new_version_obj, release) ==
    IF IsNone(versions) THEN List(<<new_version_obj>>)
    ELSE IF TopVersion(versions) # release
         THEN List(<<new_version_obj>> \o versions.items)
         ELSE List([versions.items EXCEPT ![1] = new_version_obj])

\* faulty variant: replacing the first entry does not mark the manifest changed
ChangedVersionsOnInsert(versions, release) ==
    IF IsNone(versions) THEN TRUE
    ELSE IF TopVersion(versions) # release THEN TRUE
         ELSE FALSE

\* lines 118-130: what the three branches do to the changed flag
ChangedVersions(versions, release) ==
    IF IsNone(versions) THEN TRUE
    ELSE IF TopVersion(versions) # release THEN TRUE
         ELSE TRUE

\* faulty variant: the file is opened for writing without truncation
OpenWKeep(file) == File(file.blocks)

\* line 133: open(p, 'w') creates the file or truncates it to nothing
OpenW(file) == File(<<>>)

Log(p, ev) == Append(wlog, <<p, ev>>)

Exit(p, outcome) ==
    /\ pc' = [pc EXCEPT ![p] = "done"]
    /\ out' = [out EXCEPT ![p] = Message(outcome)]
    /\ exit' = [exit EXCEPT ![p] = <<ExitCode(outcome)>>]

\* lines 38-41
ExistsCheck(p) ==
    /\ pc[p] = "start"
    /\ IF ~disk.exists
       THEN Exit(p, "not found")
       ELSE /\ pc' = [pc EXCEPT ![p] = "load"]
            /\ UNCHANGED <<out, exit>>
    /\ UNCHANGED <<disk, args, env, data, loaded, newobj, changed, woff, wbuf,
                   pre, runs, wlog>>

\* lines 43-44: json.load raises on anything that is not a whole document
Load(p) ==
    /\ pc[p] = "load"
    /\ IF WellFormed(disk.blocks)
       THEN /\ data' = [data EXCEPT ![p] = <<Parse(disk.blocks)>>]
            /\ loaded' = [loaded EXCEPT ![p] = <<Parse(disk.blocks)>>]
            /\ pc' = [pc EXCEPT ![p] = "update"]
            /\ UNCHANGED <<out, exit>>
       ELSE /\ Exit(p, "JSONDecodeError")
            /\ UNCHANGED <<data, loaded>>
    /\ wlog' = Log(p, "load")
    /\ UNCHANGED <<disk, args, env, newobj, changed, woff, wbuf, pre, runs>>

\* lines 46-130: the checks, the new entry and the in-memory mutation
Update(p) ==
    /\ pc[p] = "update"
    /\ LET release == Release(args[p], env[p])
           doc == data[p][1]
           check == Precheck(release, doc, ProvidedSize(args[p]))
       IN IF check # "ok"
          THEN /\ Exit(p, check)
               /\ UNCHANGED <<data, newobj, changed>>
          ELSE \E date_iso \in Dates :
               LET a == Apps(doc)[1]
                   new_download == NewDownload(Catbox(args[p], env[p]), a)
                   new_size == ProvidedSize(args[p])
                   obj == NewVersionObj(Prev(a), new_download, new_size, release,
                              date_iso,
                              NewLocalized(release, ReleaseNotes(args[p], env[p])))
                   top == UpdateTop(a, release, date_iso, new_download, new_size)
                   a2 == [top EXCEPT !.versions =
                              UpdateVersions(a.versions, obj, release)]
               IN /\ data' = [data EXCEPT ![p] =
                                 <<[doc EXCEPT !.apps.items[1] = a2]>>]
                  /\ newobj' = [newobj EXCEPT ![p] = <<obj>>]
                  /\ changed' = [changed EXCEPT ![p] =
                         \/ ChangedTop(a, release, date_iso, new_download, new_size)
                         \/ ChangedVersions(a.versions, release)]
                  /\ pc' = [pc EXCEPT ![p] = "decide"]
                  /\ UNCHANGED <<out, exit>>
    /\ UNCHANGED <<disk, args, env, loaded, woff, wbuf, pre, runs, wlog>>

\* lines 132-133 and 136-139: open the file for writing, or report no change
Decide(p) ==
    /\ pc[p] = "decide"
    /\ IF changed[p]
       THEN /\ disk' = OpenW(disk)
            /\ wbuf' = [wbuf EXCEPT ![p] = Serialize(data[p][1])]
            /\ woff' = [woff EXCEPT ![p] = 1]
            /\ wlog' = Log(p, "open")
            /\ pc' = [pc EXCEPT ![p] = "dump"]
            /\ UNCHANGED <<out, exit>>
       ELSE /\ Exit(p, "unchanged")
            /\ UNCHANGED <<disk, wbuf, woff, wlog>>
    /\ UNCHANGED <<args, env, data, loaded, newobj, changed, pre, runs>>

\* line 134: json.dump reaches the file one block at a time
Dump(p) ==
    /\ pc[p] = "dump"
    /\ woff[p] <= Len(wbuf[p])
    /\ disk' = File(WriteAt(disk.blocks, woff[p], wbuf[p][woff[p]]))
    /\ woff' = [woff EXCEPT ![p] = @ + 1]
    /\ UNCHANGED <<pc, args, env, data, loaded, newobj, changed, wbuf, exit,
                   out, pre, runs, wlog>>

\* lines 134-139: everything is written; close, report, return 0
Close(p) ==
    /\ pc[p] = "dump"
    /\ woff[p] > Len(wbuf[p])
    /\ Exit(p, "updated")
    /\ wlog' = Log(p, "close")
    /\ UNCHANGED <<disk, args, env, data, loaded, newobj, changed, woff, wbuf,
                   pre, runs>>

\* the environment kills the process between two of its steps
Kill(p) ==
    /\ pc[p] \in {"start", "load", "update", "decide", "dump"}
    /\ pc' = [pc EXCEPT ![p] = "killed"]
    /\ UNCHANGED <<disk, args, env, data, loaded, newobj, changed, woff, wbuf,
                   exit, out, pre, runs, wlog>>

\* the caller runs the tool again with the same arguments
Rerun(p) ==
    /\ pc[p] \in {"done", "killed"}
    /\ runs[p] < MaxRuns
    /\ runs' = [runs EXCEPT ![p] = @ + 1]
    /\ pc' = [pc EXCEPT ![p] = "start"]
    /\ data' = [data EXCEPT ![p] = <<>>]
    /\ loaded' = [loaded EXCEPT ![p] = <<>>]
    /\ newobj' = [newobj EXCEPT ![p] = <<>>]
    /\ changed' = [changed EXCEPT ![p] = FALSE]
    /\ woff' = [woff EXCEPT ![p] = 0]
    /\ wbuf' = [wbuf EXCEPT ![p] = <<>>]
    /\ exit' = [exit EXCEPT ![p] = <<>>]
    /\ out' = [out EXCEPT ![p] = ""]
    /\ pre' = [pre EXCEPT ![p] = disk]
    /\ wlog' = <<>>
    /\ UNCHANGED <<disk, args, env>>

\* ------------------------------------------------------ specifications
InitProc(started) ==
    /\ pc = [p \in Procs |-> IF p \in started THEN "start" ELSE "off"]
    /\ data = [p \in Procs |-> <<>>]
    /\ loaded = [p \in Procs |-> <<>>]
    /\ newobj = [p \in Procs |-> <<>>]
    /\ changed = [p \in Procs |-> FALSE]
    /\ woff = [p \in Procs |-> 0]
    /\ wbuf = [p \in Procs |-> <<>>]
    /\ exit = [p \in Procs |-> <<>>]
    /\ out = [p \in Procs |-> ""]
    /\ pre = [p \in Procs |-> disk]
    /\ runs = [p \in Procs |-> 1]
    /\ wlog = <<>>

NoArgs == [release_tag |-> None, catbox_url |-> None, release_notes |-> None,
           size |-> NoSize]
NoEnv == [RELEASE_TAG |-> None, CATBOX_URL |-> None, RELEASE_NOTES |-> None]

\* one invocation at a time, on any manifest, with any inputs
Init ==
    /\ disk \in {NoFile, File(<<>>)} \cup {File(Serialize(d)) : d \in OldDocs}
    /\ \E a \in ArgSet : args = [p \in Procs |-> IF p = 1 THEN a ELSE NoArgs]
    /\ \E e \in EnvSet : env = [p \in Procs |-> IF p = 1 THEN e ELSE NoEnv]
    /\ InitProc({1})

Next ==
    \/ ExistsCheck(1)
    \/ Load(1)
    \/ Update(1)
    \/ Decide(1)
    \/ Dump(1)
    \/ Close(1)
    \/ Kill(1)
    \/ Rerun(1)

Spec == Init /\ [][Next]_vars

\* two invocations at once on a manifest both can update
ConcArgs == [release_tag : Tags, catbox_url : {None}, release_notes : {None},
             size : {0}]

InitConc ==
    /\ disk \in {File(Serialize(d)) : d \in {x \in OldDocs : Len(Apps(x)) > 0}}
    /\ args \in [Procs -> ConcArgs]
    /\ env = [p \in Procs |-> NoEnv]
    /\ InitProc(Procs)

NextConc ==
    \E p \in Procs :
        \/ ExistsCheck(p)
        \/ Load(p)
        \/ Update(p)
        \/ Decide(p)
        \/ Dump(p)
        \/ Close(p)

SpecConc == InitConc /\ [][NextConc]_vars

\* ------------------------------------------------- one run: vocabulary
Rel == Release(args[1], env[1])
PreDoc == Parse(pre[1].blocks)
PreVersions == Apps(PreDoc)[1].versions
Written == Parse(disk.blocks)
WrittenApp == Apps(Written)[1]

\* the run of process 1 has returned and its inputs met every precondition
AllPass ==
    /\ pc[1] = "done"
    /\ pre[1].exists
    /\ WellFormed(pre[1].blocks)
    /\ Len(Apps(PreDoc)) > 0
    /\ Truthy(Rel)
    /\ args[1].size # NoSize

\* the run left a manifest on disk that has a first app with a versions list
WroteApp ==
    /\ exit[1] = <<0>>
    /\ disk.exists
    /\ WellFormed(disk.blocks)
    /\ Len(Apps(Written)) > 0
    /\ WrittenApp.versions.kind = "list"

\* C1: when every precondition passes and the old versions list is non-empty
\* with a first version other than the release tag, the written list is the
\* new entry (version = release tag) followed by the old list, in order.
C1_Prepend ==
    (AllPass /\ TruthyList(PreVersions) /\ TopVersion(PreVersions) # Rel)
    => /\ WroteApp
       /\ Len(WrittenApp.versions.items) = Len(PreVersions.items) + 1
       /\ Get(WrittenApp.versions.items[1], "version") = Rel
       /\ \A i \in 1..Len(PreVersions.items) :
              WrittenApp.versions.items[i + 1] = PreVersions.items[i]

C1_Witness ==
    /\ AllPass /\ TruthyList(PreVersions) /\ TopVersion(PreVersions) # Rel
    /\ Len(PreVersions.items) = 2
    /\ PreVersions.items[1] # PreVersions.items[2]
    /\ Len(WrittenApp.versions.items) = 3

\* C2: when every precondition passes and the old first version equals the
\* release tag, the written list has the old length and differs from the old
\* one at most in its first entry.
C2_Replace ==
    (AllPass /\ TruthyList(PreVersions) /\ TopVersion(PreVersions) = Rel)
    => /\ WroteApp
       /\ Len(WrittenApp.versions.items) = Len(PreVersions.items)
       /\ WrittenApp.versions.items[1] = newobj[1][1]
       /\ \A i \in 2..Len(PreVersions.items) :
              WrittenApp.versions.items[i] = PreVersions.items[i]

C2_Witness ==
    /\ AllPass /\ TruthyList(PreVersions) /\ TopVersion(PreVersions) = Rel
    /\ Len(PreVersions.items) = 2
    /\ WrittenApp.versions.items[1] # PreVersions.items[1]
    /\ WrittenApp.versions.items[2] = PreVersions.items[2]

C4_Original ==
    (pc[1] = "done" /\ args[1].release_tag = None /\ env[1].RELEASE_TAG = None)
    => (exit[1] = <<0>> /\ disk = pre[1])

\* C4 amended: a run with no release tag leaves the file as it was, and exits
\* with status 0 whenever the manifest exists and parses.
C4_NoRelease ==
    (pc[1] = "done" /\ ~Truthy(Rel))
    => /\ disk = pre[1]
       /\ (pre[1].exists /\ WellFormed(pre[1].blocks)) => exit[1] = <<0>>

C4_Witness ==
    /\ pc[1] = "done" /\ ~Truthy(Rel)
    /\ pre[1].exists /\ WellFormed(pre[1].blocks) /\ Len(Apps(PreDoc)) = 0
    /\ args[1].size = NoSize
    /\ exit[1] = <<0>>

\* C5 as stated: in every state of a run, a killed run included, the file
\* holds the complete pre-run content or the complete new content.
C5_Original ==
    pc[1] \in {"load", "update", "decide", "dump", "done", "killed"}
    => \/ disk = pre[1]
       \/ (Len(data[1]) > 0 /\ disk = File(Serialize(data[1][1])))

\* the first n blocks of what json.dump writes
Prefix(blocks, n) == SubSeq(blocks, 1, n)

\* C5 amended: the file is rewritten in place. It holds the complete pre-run
\* content until it is opened for writing and the complete new content once
\* the run has returned; while the write is under way, and after a kill
\* during it, it holds the blocks written so far, a prefix of the new content
\* that may be empty.
C5_InPlace ==
    /\ pc[1] \in {"load", "update", "decide"} => disk = pre[1]
    /\ pc[1] = "dump" => /\ wbuf[1] = Serialize(data[1][1])
                         /\ disk = File(Prefix(wbuf[1], woff[1] - 1))
    /\ pc[1] = "done" => IF out[1] = Message("updated")
                         THEN disk = File(Serialize(data[1][1]))
                         ELSE disk = pre[1]
    /\ pc[1] = "killed" => IF woff[1] = 0
                           THEN disk = pre[1]
                           ELSE disk = File(Prefix(wbuf[1], woff[1] - 1))

C5_Witness ==
    /\ pc[1] = "killed"
    /\ woff[1] > 1
    /\ woff[1] <= Len(wbuf[1])
    /\ WellFormed(pre[1].blocks)
    /\ ~WellFormed(disk.blocks)
    /\ disk # pre[1]

\* C6: when every precondition passes, the new entry has the old first
\* entry's minOSVersion whenever that entry had the field, whatever its value,
\* and has no minOSVersion field otherwise.
C6_MinOS ==
    AllPass
    => IF TruthyList(PreVersions) /\ "minOSVersion" \in DOMAIN PreVersions.items[1]
       THEN /\ "minOSVersion" \in DOMAIN newobj[1][1]
            /\ newobj[1][1].minOSVersion = PreVersions.items[1].minOSVersion
       ELSE "minOSVersion" \notin DOMAIN newobj[1][1]

\* C7: when every precondition passes, the written manifest has the release
\* tag as apps[0].version and as apps[0].versions[0].version.
C7_VersionIsRelease ==
    AllPass
    => /\ WroteApp
       /\ WrittenApp.version = Rel
       /\ Len(WrittenApp.versions.items) > 0
       /\ Get(WrittenApp.versions.items[1], "version") = Rel

C7_Witness ==
    /\ AllPass
    /\ Apps(PreDoc)[1].version # Rel
    /\ WrittenApp.version = Rel
    /\ Len(WrittenApp.versions.items) > 1

\* C8: when every precondition passes and the old versions array is absent,
\* null or empty, the written array holds exactly one entry and its version is
\* the release tag.
C8_FirstEntry ==
    (AllPass /\ ~TruthyList(PreVersions))
    => /\ WroteApp
       /\ Len(WrittenApp.versions.items) = 1
       /\ Get(WrittenApp.versions.items[1], "version") = Rel

C8_Witness ==
    /\ AllPass
    /\ PreVersions.kind = "absent"
    /\ WrittenApp.versions = List(newobj[1])

\* C10: a run that passes every precondition reaches the write decision with
\* changed set, so it rewrites the file and never reports "No changes
\* required", a repeated run on its own output included.
C10_AlwaysChanged ==
    /\ pc[1] = "decide" => changed[1]
    /\ AllPass => /\ out[1] = Message("updated")
                  /\ disk = File(Serialize(data[1][1]))

\* a repeated run that finds every value it would write already in the file
C10_Witness ==
    /\ pc[1] = "decide"
    /\ runs[1] = 2
    /\ data[1] = loaded[1]
    /\ changed[1]

\* ------------------------------------------------ two runs: vocabulary
Pos(p, ev) == CHOOSE i \in 1..Len(wlog) : wlog[i] = <<p, ev>>

BothUpdated == \A p \in Procs : pc[p] = "done" /\ out[p] = Message("updated")

\* both runs loaded the file before either opened it for writing
LoadsFirst == \A p, q \in Procs : Pos(p, "load") < Pos(q, "open")

\* the run that opened the file for writing last, and the other one
SecondWriter == CHOOSE p \in Procs : \A q \in Procs : Pos(q, "open") <= Pos(p, "open")
FirstWriter == CHOOSE p \in Procs : p # SecondWriter

DifferentTags == Release(args[1], env[1]) # Release(args[2], env[2])

\* C9 as stated: when both runs load before either writes, the final file is
\* the second writer's result computed from the originally loaded content.
C9_Original ==
    (BothUpdated /\ DifferentTags /\ LoadsFirst)
    => /\ loaded[SecondWriter] = <<Parse(pre[FirstWriter].blocks)>>
       /\ disk = File(Serialize(data[SecondWriter][1]))

\* C9 amended: when both runs load before either writes and the second writer
\* opens the file only after the first has finished writing, the final file is
\* the second writer's result computed from the originally loaded content; the
\* first writer's entry is lost and versions has grown by at most one.
C9_LastWriterWins ==
    (BothUpdated /\ DifferentTags /\ LoadsFirst
        /\ Pos(FirstWriter, "close") < Pos(SecondWriter, "open"))
    => /\ loaded[SecondWriter] = <<Parse(pre[FirstWriter].blocks)>>
       /\ disk = File(Serialize(data[SecondWriter][1]))
       /\ newobj[FirstWriter][1] # newobj[SecondWriter][1]
       /\ \A i \in 1..Len(Entries(Parse(disk.blocks))) :
              Entries(Parse(disk.blocks))[i] # newobj[FirstWriter][1]
       /\ Len(Entries(Parse(disk.blocks)))
              <= Len(Entries(loaded[SecondWriter][1])) + 1

C9_Witness ==
    /\ BothUpdated /\ DifferentTags /\ LoadsFirst
    /\ Pos(FirstWriter, "close") < Pos(SecondWriter, "open")
    /\ Len(Serialize(data[SecondWriter][1])) < Len(Serialize(data[FirstWriter][1]))
    /\ disk = File(Serialize(data[SecondWriter][1]))

====
